---- MODULE Spec2Model ----
(***************************************************************************)
(* A model of parameter_provider.py: the hierarchical parameter loader      *)
(* (recursive dictionary merge, @include inheritance, @ref: cross-reference *)
(* resolution, the published run session and its read API).                 *)
(*                                                                           *)
(* Python values are tagged records [t |-> tag, v |-> payload]:              *)
(*   "int"  an integer            "str"  a string, as a sequence of          *)
(*   "null" None / JSON null             one-character strings               *)
(*   "list" a sequence of values  "dict" a dictionary: the sequence of its   *)
(*   "ref"  a second reference to        <<key, value>> items in insertion   *)
(*          the dict object that         order, keys being strings           *)
(*          sits at path v of the same tree (the root is <<>>)               *)
(*   "obj"  a recordclass instance, "tuple" a tuple, "exc" a raised           *)
(*          exception, "unset" a global name not yet bound.                  *)
(***************************************************************************)
EXTENDS Integers, Sequences, FiniteSets, TLC

VARIABLES
    files,           \* run_params/: file name -> parsed JSON document
    argv,            \* sys.argv
    P,               \* module global P (the structured view)
    CURRENT_PARAMS,  \* module global CURRENT_PARAMS
    CURRENT_RUN,     \* module global CURRENT_RUN
    past_runs,       \* past_runs/: run directory -> [params, log]
    call,            \* the last call made: function name and arguments
    ret,             \* what that call returned or raised
    last_ok          \* history: what the last call that returned normally published

vars == <<files, argv, P, CURRENT_PARAMS, CURRENT_RUN, past_runs, call, ret, last_ok>>

----------------------------------------------------------------------------
(* Values *)

IntV(n) == [t |-> "int", v |-> n]
StrV(s) == [t |-> "str", v |-> s]
ListV(l) == [t |-> "list", v |-> l]
DictV(d) == [t |-> "dict", v |-> d]
RefV(p) == [t |-> "ref", v |-> p]
ObjV(d) == [t |-> "obj", v |-> d]
TupV(l) == [t |-> "tuple", v |-> l]
BoolV(b) == [t |-> "bool", v |-> b]
None == [t |-> "null", v |-> <<>>]
Raise(e) == [t |-> "exc", v |-> e]
Unset == [t |-> "unset", v |-> <<>>]

IsDict(x) == x.t = "dict"
IsStr(x) == x.t = "str"
IsExc(x) == x.t = "exc"

(* Python's str operations, on sequences of characters. *)
startswith(s, p) == Len(s) >= Len(p) /\ SubSeq(s, 1, Len(p)) = p
Drop(s, n) == SubSeq(s, n + 1, Len(s))
HasChar(s, c) == \E i \in 1..Len(s) : s[i] = c
FirstIndex(s, c) == CHOOSE i \in 1..Len(s) : s[i] = c /\ \A j \in 1..(i - 1) : s[j] # c

(* Python's dict operations, on item sequences. *)
KeysOf(d) == {d[i][1] : i \in 1..Len(d)}
Has(d, k) == \E i \in 1..Len(d) : d[i][1] = k
IndexOf(d, k) == CHOOSE i \in 1..Len(d) : d[i][1] = k
Get(d, k) == d[IndexOf(d, k)][2]
Put(d, k, x) ==
    IF Has(d, k) THEN [d EXCEPT ![IndexOf(d, k)] = <<k, x>>] ELSE Append(d, <<k, x>>)
Del(d, k) ==
    LET i == IndexOf(d, k) IN SubSeq(d, 1, i - 1) \o SubSeq(d, i + 1, Len(d))

----------------------------------------------------------------------------
(* _dict_merge *)

RECURSIVE _dict_merge(_, _)
RECURSIVE MergeItems(_, _, _, _)

(* Mutant: every key of dict2 overwrites, nested dicts included (dict.update). *)
RECURSIVE MergeItemsShallow(_, _, _, _)
MergeItemsShallow(outdict, dict1, dict2, i) ==
    IF i > Len(dict2) THEN outdict
    ELSE MergeItemsShallow(Put(outdict, dict2[i][1], dict2[i][2]), dict1, dict2, i + 1)

(* The loop of _dict_merge from the i-th item of dict2 on. *)
MergeItems(outdict, dict1, dict2, i) ==
    IF i > Len(dict2) THEN outdict
    ELSE LET k == dict2[i][1]
             x == dict2[i][2]
         IN  IF Has(dict1, k) /\ IsDict(Get(dict1, k)) /\ IsDict(x)
             THEN MergeItems(Put(outdict, k, DictV(_dict_merge(Get(dict1, k).v, x.v))),
                             dict1, dict2, i + 1)
             ELSE MergeItems(Put(outdict, k, Get(dict2, k)), dict1, dict2, i + 1)

_dict_merge(dict1, dict2) == MergeItems(dict1, dict1, dict2, 1)

----------------------------------------------------------------------------
(* Exceptions *)

MissingInclude == Raise(<<"ValueError", "No parameter file include found for: ">>)
RootEscape == Raise(<<"ValueError", "Failed to resolve .., at root of tree">>)
NoSuchKey == Raise(<<"ValueError", "No such key">>)
NotADict == Raise(<<"ValueError", "is not a dict">>)
NameNotString == Raise(<<"ValueError", "setup_name_or_names must be string or iterable of strings">>)
InvalidFieldName == Raise(<<"ValueError", "Type names and field names must be valid identifiers">>)
AttributeError == Raise(<<"AttributeError">>)
TypeError == Raise(<<"TypeError">>)
KeyError == Raise(<<"KeyError">>)
IndexError == Raise(<<"IndexError">>)
NameError == Raise(<<"NameError">>)
AssertionError == Raise(<<"AssertionError">>)
RecursionError == Raise(<<"RecursionError">>)
FileNotFoundError == Raise(<<"FileNotFoundError">>)

(* The interpreter's limit on nested calls, scaled down. *)
RecursionLimit == 12

(* The longest run log the model follows. *)
MaxLog == 1

----------------------------------------------------------------------------
(* Strings of the program *)

CMD_LINE_ARGS == <<"c", "m", "d", "l", "i", "n", "e">>
INCLUDE == <<"@", "i", "n", "c", "l", "u", "d", "e">>
REF == <<"@", "r", "e", "f", ":">>
UP == <<".", ".", "/">>
SLASH == <<"/">>
DOT_JSON == <<".", "j", "s", "o", "n">>
EXPERIMENT_NAME == <<"e", "x", "p", "e", "r", "i", "m", "e", "n", "t", "_", "n", "a", "m", "e">>
RUN_NAME == <<"r", "u", "n", "_", "n", "a", "m", "e">>
UNTITLED_RUN == <<"U", "n", "t", "i", "t", "l", "e", "d", "R", "u", "n">>

----------------------------------------------------------------------------
(* _load_json, _load_params *)

(* json.load of the file, None when there is no such file. *)
_load_json(fs, full_path) ==
    IF full_path \notin DOMAIN fs THEN None ELSE fs[full_path]

_load_params(fs, setup_name) == _load_json(fs, setup_name \o DOT_JSON)

----------------------------------------------------------------------------
(* _import_include_params *)

(* Python truth value of x, as `or` tests it. *)
Truthy(x) ==
    CASE x.t = "null" -> FALSE
      [] x.t = "int" -> x.v # 0
      [] OTHER -> Len(x.v) # 0

(* What `for include in includes` iterates over: None when includes is not iterable. *)
Iterate(x) ==
    CASE x.t = "list" -> ListV(x.v)
      [] x.t = "str" -> ListV([i \in 1..Len(x.v) |-> StrV(<<x.v[i]>>)])
      [] x.t = "dict" -> ListV([i \in 1..Len(x.v) |-> StrV(x.v[i][1])])
      [] OTHER -> None

RECURSIVE _import_include_params(_, _, _)
RECURSIVE IncludeLoop(_, _, _, _, _)

(* The for loop of _import_include_params from the i-th include on: the inherited *)
(* parameters (a dict's items), or the exception raised.                          *)
IncludeLoop(fs, includes, i, inherited_params, depth) ==
    IF i > Len(includes) THEN DictV(inherited_params)
    ELSE LET include == includes[i] IN
         IF ~IsStr(include) THEN TypeError
         ELSE LET incl_params == _load_params(fs, include.v) IN
              IF incl_params = None THEN MissingInclude
              ELSE LET resolved == _import_include_params(fs, incl_params, depth + 1) IN
                   IF IsExc(resolved) THEN resolved
                   ELSE IncludeLoop(fs, includes, i + 1,
                                    _dict_merge(inherited_params, resolved.v), depth)

(* Mutant: the included parameters are laid over the set's own. *)
ImportOwnFirst(fs, params, depth) ==
    IF depth > RecursionLimit THEN RecursionError
    ELSE IF ~IsDict(params) THEN AttributeError
    ELSE LET got == IF Has(params.v, INCLUDE) THEN Get(params.v, INCLUDE) ELSE None
             includes == IF Truthy(got) THEN Iterate(got) ELSE ListV(<<>>)
         IN  IF includes = None THEN TypeError
             ELSE LET inherited == IncludeLoop(fs, includes.v, 1, <<>>, depth) IN
                  IF IsExc(inherited) THEN inherited
                  ELSE LET merged == _dict_merge(params.v, inherited.v) IN
                       DictV(IF Has(merged, INCLUDE) THEN Del(merged, INCLUDE) ELSE merged)

(* Mutant: the @include key is left in the result. *)
ImportKeepTag(fs, params, depth) ==
    IF depth > RecursionLimit THEN RecursionError
    ELSE IF ~IsDict(params) THEN AttributeError
    ELSE LET got == IF Has(params.v, INCLUDE) THEN Get(params.v, INCLUDE) ELSE None
             includes == IF Truthy(got) THEN Iterate(got) ELSE ListV(<<>>)
         IN  IF includes = None THEN TypeError
             ELSE LET inherited == IncludeLoop(fs, includes.v, 1, <<>>, depth) IN
                  IF IsExc(inherited) THEN inherited
                  ELSE DictV(_dict_merge(inherited.v, params.v))

(* params: a loaded document.  The resolved dict, or the exception raised. *)
_import_include_params(fs, params, depth) ==
    IF depth > RecursionLimit THEN RecursionError
    ELSE IF ~IsDict(params) THEN AttributeError
    ELSE LET got == IF Has(params.v, INCLUDE) THEN Get(params.v, INCLUDE) ELSE None
             includes == IF Truthy(got) THEN Iterate(got) ELSE ListV(<<>>)
         IN  IF includes = None THEN TypeError
             ELSE LET inherited == IncludeLoop(fs, includes.v, 1, <<>>, depth) IN
                  IF IsExc(inherited) THEN inherited
                  ELSE LET merged == _dict_merge(inherited.v, params.v) IN
                       DictV(IF Has(merged, INCLUDE) THEN Del(merged, INCLUDE) ELSE merged)

----------------------------------------------------------------------------
(* Dict objects of one tree.  A dict object is named by the path of keys    *)
(* that leads to it from the root through nested dicts; root is the root     *)
(* dict's items.                                                             *)

RECURSIVE ObjAt(_, _)
ObjAt(root, path) ==
    IF path = <<>> THEN root ELSE ObjAt(Get(root, path[1]).v, Tail(path))

(* The tree after d[k] = x on the dict object at path. *)
RECURSIVE SetAt(_, _, _, _)
SetAt(root, path, k, x) ==
    IF path = <<>> THEN Put(root, k, x)
    ELSE Put(root, path[1], DictV(SetAt(Get(root, path[1]).v, Tail(path), k, x)))

(* The value x read from key k of the dict object at path, as a Python value: *)
(* a nested dict is handed out by reference.                                   *)
Deref(path, k, x) == IF IsDict(x) THEN RefV(path \o <<k>>) ELSE x

IsDictObj(x) == x.t \in {"dict", "ref"}

----------------------------------------------------------------------------
(* _search_crossreference *)

RECURSIVE _search_crossreference(_, _, _, _)
_search_crossreference(root, cref, dict_stack, depth) ==
    IF depth > RecursionLimit THEN RecursionError
    \* Start at root
    ELSE IF startswith(cref, SLASH)
    THEN _search_crossreference(root, cref, SubSeq(dict_stack, 1, 1), depth + 1)
    \* Go one level up
    ELSE IF startswith(cref, UP)
    THEN IF Len(dict_stack) = 1 THEN RootEscape
         ELSE _search_crossreference(root, Drop(cref, Len(UP)),
                                     SubSeq(dict_stack, 1, Len(dict_stack) - 1), depth + 1)
    ELSE LET top == dict_stack[Len(dict_stack)]
             this_level_dict == ObjAt(root, top)
         IN  \* Go one level down
             IF HasChar(cref, "/")
             THEN LET k == SubSeq(cref, 1, FirstIndex(cref, "/") - 1) IN
                  IF ~Has(this_level_dict, k) THEN NoSuchKey
                  ELSE LET x == Deref(top, k, Get(this_level_dict, k)) IN
                       IF ~IsDictObj(x) THEN NotADict
                       ELSE _search_crossreference(root, Drop(cref, Len(k) + 1),
                                                   Append(dict_stack, x.v), depth + 1)
             \* Resolve at this level
             ELSE IF ~Has(this_level_dict, cref) THEN NoSuchKey
                  ELSE Deref(top, cref, Get(this_level_dict, cref))

----------------------------------------------------------------------------
(* _resolve_crossreferences *)

RECURSIVE _resolve_crossreferences(_, _, _)
RECURSIVE ResolveItems(_, _, _, _)

(* The for loop of _resolve_crossreferences over the dict object on top of     *)
(* stack, from its i-th item on: the tree afterwards, or the exception raised. *)
ResolveItems(root, stack, i, depth) ==
    LET top == stack[Len(stack)]
        d == ObjAt(root, top)
    IN  IF i > Len(d) THEN DictV(root)
        ELSE LET k == d[i][1]
                 x == Deref(top, k, d[i][2])
             IN  IF IsStr(x) /\ startswith(x.v, REF)
                 THEN LET value == _search_crossreference(root, Drop(x.v, Len(REF)),
                                                          stack, depth + 1)
                      IN  IF IsExc(value) THEN value
                          ELSE ResolveItems(SetAt(root, top, k, value), stack, i + 1, depth)
                 ELSE IF IsDictObj(x)
                 THEN LET done == _resolve_crossreferences(root, Append(stack, x.v), depth + 1)
                      IN  IF IsExc(done) THEN done
                          ELSE ResolveItems(done.v, stack, i + 1, depth)
                 ELSE ResolveItems(root, stack, i + 1, depth)

(* Mutant: only the root dict is walked, nested dicts are left as they are. *)
ResolveRootOnly(root, stack, depth) ==
    IF Len(stack) > 1 THEN DictV(root) ELSE ResolveItems(root, stack, 1, depth)

(* stack: the dict objects from the root down to the one being walked. *)
_resolve_crossreferences(root, stack, depth) ==
    IF depth > RecursionLimit THEN RecursionError
    ELSE ResolveItems(root, stack, 1, depth)

----------------------------------------------------------------------------
(* dict_to_obj *)

LETTERS == {"a", "b", "c", "d", "e", "f", "g", "h", "i", "j", "k", "l", "m",
            "n", "o", "p", "q", "r", "s", "t", "u", "v", "w", "x", "y", "z",
            "A", "B", "C", "D", "E", "F", "G", "H", "I", "J", "K", "L", "M",
            "N", "O", "P", "Q", "R", "S", "T", "U", "V", "W", "X", "Y", "Z", "_"}
DIGITS == {"0", "1", "2", "3", "4", "5", "6", "7", "8", "9"}

(* str.isidentifier: what recordclass accepts as a field name. *)
isidentifier(name) ==
    /\ Len(name) > 0
    /\ name[1] \in LETTERS
    /\ \A i \in 1..Len(name) : name[i] \in LETTERS \cup DIGITS

RECURSIVE dict_to_obj(_, _, _)
RECURSIVE ConvertItems(_, _, _, _)

(* The first loop of dict_to_obj over the items of d (the dict object at path) *)
(* from the i-th on: the items with every dict value converted, or the         *)
(* exception raised.                                                           *)
ConvertItems(root, path, i, depth) ==
    LET d == ObjAt(root, path) IN
    IF i > Len(d) THEN DictV(<<>>)
    ELSE LET k == d[i][1]
             x == Deref(path, k, d[i][2])
             first == IF IsDictObj(x) THEN dict_to_obj(root, x.v, depth + 1) ELSE x
         IN  IF IsExc(first) THEN first
             ELSE LET rest == ConvertItems(root, path, i + 1, depth) IN
                  IF IsExc(rest) THEN rest ELSE DictV(<<<<k, first>>>> \o rest.v)

(* The recordclass instance for the dict object at path, or the exception raised. *)
dict_to_obj(root, path, depth) ==
    IF depth > RecursionLimit THEN RecursionError
    ELSE LET d == ConvertItems(root, path, 1, depth) IN
         IF IsExc(d) THEN d
         ELSE IF \E k \in KeysOf(d.v) : ~isidentifier(k) THEN InvalidFieldName
         ELSE ObjV(d.v)

----------------------------------------------------------------------------
(* initialize_parameters *)

(* ":".join(setup_names) *)
RECURSIVE Join(_)
Join(names) ==
    IF Len(names) = 0 THEN <<>>
    ELSE IF Len(names) = 1 THEN names[1].v
    ELSE names[1].v \o <<":">> \o Join(Tail(names))

(* Lines 170-178: the list of setup names, or the exception raised. *)
SetupNames(av, setup_name_or_names) ==
    IF setup_name_or_names = StrV(CMD_LINE_ARGS)
    THEN IF Len(av) >= 2 THEN ListV(Tail(av)) ELSE AssertionError
    ELSE IF IsStr(setup_name_or_names) THEN ListV(<<setup_name_or_names>>)
    ELSE IF setup_name_or_names.t # "list" THEN TypeError
    ELSE IF Len(setup_name_or_names.v) = 0 THEN IndexError
    ELSE IF IsStr(setup_name_or_names.v[1]) THEN setup_name_or_names
    ELSE NameNotString

(* Lines 180-191: the loop over setup_names from the i-th on. *)
RECURSIVE MergeSetups(_, _, _, _)
MergeSetups(fs, setup_names, i, merged_params) ==
    IF i > Len(setup_names) THEN DictV(merged_params)
    ELSE IF ~IsStr(setup_names[i]) THEN TypeError
    ELSE LET loaded == _load_params(fs, setup_names[i].v)
             \* None is only reported ("Whoops! Parameters not found"), then used
             params == _import_include_params(fs, loaded, 2)
         IN  IF IsExc(params) THEN params
             ELSE MergeSetups(fs, setup_names, i + 1, _dict_merge(merged_params, params.v))

(* Lines 180-194: merged_params after cross-reference resolution. *)
MergedParams(fs, setup_names) ==
    LET merged_params == MergeSetups(fs, setup_names, 1, <<>>) IN
    IF IsExc(merged_params) THEN merged_params
    ELSE _resolve_crossreferences(merged_params.v, <<<<>>>>, 2)

(* Lines 196-199: run_name, or the exception raised. *)
RunName(merged_params) ==
    IF Has(merged_params, EXPERIMENT_NAME)
    THEN IF Has(merged_params, RUN_NAME)
         THEN Deref(<<>>, RUN_NAME, Get(merged_params, RUN_NAME))
         ELSE KeyError
    ELSE StrV(UNTITLED_RUN)

(* _save_json(data, past_runs/<run_name>/params.json): the directory is made *)
(* when missing, params.json is written anew, log.txt is left as it is.       *)
_save_json(runs, run_name, data) ==
    IF run_name \in DOMAIN runs
    THEN [runs EXCEPT ![run_name].params = data]
    ELSE [r \in DOMAIN runs \cup {run_name} |->
            IF r = run_name THEN [params |-> data, log |-> <<>>] ELSE runs[r]]

(* _log_experiment_start: the run storage afterwards, or the exception raised *)
(* (os.path.join takes only strings).                                         *)
_log_experiment_start(runs, run_name, params) ==
    IF ~IsStr(run_name) THEN TypeError
    ELSE [t |-> "ok", v |-> _save_json(runs, run_name.v, params)]

----------------------------------------------------------------------------
(* The read API: get_parameter, _get_parameter_from_dict *)

(* `x in d` for a value d of the tree rooted at root: a bool, or the *)
(* exception raised.                                                  *)
Contains(root, d, x) ==
    CASE d.t = "ref" -> BoolV(IsStr(x) /\ Has(ObjAt(root, d.v), x.v))
      [] d.t = "list" -> BoolV(\E i \in 1..Len(d.v) : d.v[i] = x)
      [] d.t = "str" ->
            IF IsStr(x)
            THEN BoolV(\E i \in 0..Len(d.v) : startswith(Drop(d.v, i), x.v))
            ELSE TypeError
      [] OTHER -> TypeError

RECURSIVE _get_parameter_from_dict(_, _, _)
_get_parameter_from_dict(root, d, addr) ==
    IF Len(addr) = 0 THEN d
    ELSE LET found == Contains(root, d, addr[1]) IN
         IF IsExc(found) THEN found
         ELSE IF ~found.v THEN None   \* "Parameter ... not found" is printed
         ELSE IF d.t # "ref" THEN TypeError
         ELSE LET x == Deref(d.v, addr[1].v, Get(ObjAt(root, d.v), addr[1].v)) IN
              \* the rest of the address is passed on as ONE argument, a tuple
              _get_parameter_from_dict(root, x, <<TupV(Tail(addr))>>)

----------------------------------------------------------------------------
(* The operations of the module, as actions *)

Call(fn, args) == [fn |-> fn, args |-> args]

(* The globals and the run storage, with what the call in progress returns. *)
Now(result) ==
    [ret |-> result, P |-> P, CURRENT_PARAMS |-> CURRENT_PARAMS,
     CURRENT_RUN |-> CURRENT_RUN, past_runs |-> past_runs, last_ok |-> last_ok]

(* Mutant: CURRENT_RUN is assigned before the parameters are resolved. *)
RaisedRunNameFirst(before, exc) ==
    [before EXCEPT !.ret = exc, !.CURRENT_RUN = StrV(UNTITLED_RUN)]

(* initialize_parameters left by an exception before the globals were assigned. *)
Raised(before, exc) == [before EXCEPT !.ret = exc]

(* initialize_parameters from the state before: the state it leaves, ret being *)
(* None or the exception raised.                                               *)
InitializeOutcome(before, fs, av, setup_name_or_names) ==
    LET setup_names == SetupNames(av, setup_name_or_names) IN
    IF IsExc(setup_names) THEN Raised(before, setup_names)
    ELSE LET merged_params == MergedParams(fs, setup_names.v) IN
    IF IsExc(merged_params) THEN Raised(before, merged_params)
    ELSE LET run_name == RunName(merged_params.v) IN
    IF IsExc(run_name) THEN Raised(before, run_name)
    ELSE LET params_obj == dict_to_obj(merged_params.v, <<>>, 2) IN
    IF IsExc(params_obj) THEN Raised(before, params_obj)
    ELSE LET logged == _log_experiment_start(before.past_runs, run_name,
                                             StrV(Join(setup_names.v)))
         IN  [ret |-> IF IsExc(logged) THEN logged ELSE None,
              P |-> params_obj,
              CURRENT_PARAMS |-> merged_params,
              CURRENT_RUN |-> run_name,
              past_runs |-> IF IsExc(logged) THEN before.past_runs ELSE logged.v,
              last_ok |-> IF IsExc(logged) THEN before.last_ok
                          ELSE <<params_obj, merged_params, run_name>>]

(* initialize_parameters(setup_name_or_names) *)
initialize_parameters(setup_name_or_names) ==
    \E after \in {InitializeOutcome(Now(None), files, argv, setup_name_or_names)} :
        /\ call' = Call("initialize_parameters", <<setup_name_or_names>>)
        /\ ret' = after.ret
        /\ P' = after.P
        /\ CURRENT_PARAMS' = after.CURRENT_PARAMS
        /\ CURRENT_RUN' = after.CURRENT_RUN
        /\ past_runs' = after.past_runs
        /\ last_ok' = after.last_ok
        /\ UNCHANGED <<files, argv>>

(* get_current_parameters_dict() *)
get_current_parameters_dict ==
    /\ call' = Call("get_current_parameters_dict", <<>>)
    /\ ret' = IF CURRENT_PARAMS = Unset THEN NameError ELSE RefV(<<>>)
    /\ UNCHANGED <<files, argv, P, CURRENT_PARAMS, CURRENT_RUN, past_runs, last_ok>>

(* get_parameter: addr is the tuple of its arguments *)
get_parameter(addr) ==
    /\ call' = Call("get_parameter", addr)
    /\ ret' = IF CURRENT_PARAMS = Unset THEN NameError
              ELSE _get_parameter_from_dict(CURRENT_PARAMS.v, RefV(<<>>), addr)
    /\ UNCHANGED <<files, argv, P, CURRENT_PARAMS, CURRENT_RUN, past_runs, last_ok>>

(* get_run_name() *)
get_run_name ==
    /\ call' = Call("get_run_name", <<>>)
    /\ ret' = IF CURRENT_RUN = Unset THEN NameError ELSE CURRENT_RUN
    /\ UNCHANGED <<files, argv, P, CURRENT_PARAMS, CURRENT_RUN, past_runs, last_ok>>

(* datetime.datetime.now().strftime("%M %d %Y - %H:%M:%S"), kept as one token. *)
strftime(now) == <<now>>

(* get_stamp(), the clock reading now. *)
get_stamp(now) ==
    /\ call' = Call("get_stamp", <<>>)
    /\ ret' = StrV(strftime(now))
    /\ UNCHANGED <<files, argv, P, CURRENT_PARAMS, CURRENT_RUN, past_runs, last_ok>>

(* log(string), the clock reading now. *)
log(string, now) ==
    LET stamp == strftime(now)
        logline == stamp \o <<" ">> \o string
        failed == IF CURRENT_RUN = Unset THEN NameError
                  ELSE IF ~IsStr(CURRENT_RUN) THEN TypeError
                  ELSE IF CURRENT_RUN.v \notin DOMAIN past_runs THEN FileNotFoundError
                  ELSE None
    IN  /\ call' = Call("log", <<StrV(string)>>)
        /\ ret' = failed
        /\ IF failed # None THEN UNCHANGED past_runs
           ELSE /\ Len(past_runs[CURRENT_RUN.v].log) < MaxLog
                /\ past_runs' = [past_runs EXCEPT ![CURRENT_RUN.v].log =
                                    Append(@, logline \o <<"\n">>)]
        /\ UNCHANGED <<files, argv, P, CURRENT_PARAMS, CURRENT_RUN, last_ok>>

----------------------------------------------------------------------------
(* Inputs: keys, documents, trees *)

Ka == <<"a">>
Kb == <<"b">>
Kc == <<"c">>
Kd == <<"d">>
Ke == <<"e">>
Kx == <<"x">>
Ky == <<"y">>
Kz == <<"z">>

(* Every dict (as items) with keys from ks, in any insertion order, and values from vs. *)
DictsOver(ks, vs) ==
    UNION {{items \in [1..n -> ks \X vs] :
                \A i, j \in 1..n : i # j => items[i][1] # items[j][1]} :
           n \in 0..Cardinality(ks)}

Leaves == {IntV(1), IntV(2)}
FlatTrees == DictsOver({Ka, Kb}, Leaves)
Trees == DictsOver({Ka, Kb}, Leaves \cup {DictV(t) : t \in FlatTrees})

Program == <<"p", "r", "o", "g">>
NoFiles == [f \in {} |-> None]

(* The module as imported: P = None, the other globals not yet bound. *)
Imported ==
    /\ P = None
    /\ CURRENT_PARAMS = Unset
    /\ CURRENT_RUN = Unset
    /\ past_runs = [r \in {} |-> None]
    /\ last_ok = <<None, Unset, Unset>>

Globals == <<P, CURRENT_PARAMS, CURRENT_RUN, past_runs, last_ok>>

----------------------------------------------------------------------------
(* SpecMerge: _dict_merge applied to every pair of trees *)

InitMerge ==
    /\ Imported
    /\ files = NoFiles
    /\ argv = <<StrV(Program)>>
    /\ call \in {Call("_dict_merge", <<DictV(dict1), DictV(dict2)>>) :
                    dict1 \in Trees, dict2 \in Trees}
    /\ ret = Unset

ApplyMerge ==
    /\ call.fn = "_dict_merge"
    /\ ret = Unset
    /\ ret' = DictV(_dict_merge(call.args[1].v, call.args[2].v))
    /\ UNCHANGED <<files, argv, call, Globals>>

SpecMerge == InitMerge /\ [][ApplyMerge]_vars

(* What the merge of base and overlay is, key by key. *)
RECURSIVE IsMergeOf(_, _, _)
IsMergeOf(merged, base, overlay) ==
    /\ KeysOf(merged) = KeysOf(base) \cup KeysOf(overlay)
    /\ Len(merged) = Cardinality(KeysOf(merged))
    /\ \A k \in KeysOf(merged) :
          IF ~Has(overlay, k) THEN Get(merged, k) = Get(base, k)
          ELSE IF Has(base, k) /\ IsDict(Get(base, k)) /\ IsDict(Get(overlay, k))
          THEN /\ IsDict(Get(merged, k))
               /\ IsMergeOf(Get(merged, k).v, Get(base, k).v, Get(overlay, k).v)
          ELSE Get(merged, k) = Get(overlay, k)

MergeExampleBase == <<<<Ka, DictV(<<<<Kx, IntV(1)>>, <<Ky, IntV(2)>>>>)>>>>
MergeExampleOverlay == <<<<Ka, DictV(<<<<Ky, IntV(3)>>, <<Kz, IntV(4)>>>>)>>>>
MergeExampleResult ==
    <<<<Ka, DictV(<<<<Kx, IntV(1)>>, <<Ky, IntV(3)>>, <<Kz, IntV(4)>>>>)>>>>

(* C3: merge is right-biased and recursive.  merge(base, overlay) has exactly   *)
(* the keys of base united with those of overlay; a key only in base keeps      *)
(* base's value; a key in both whose two values are mappings holds the merge of *)
(* the two; every other key of overlay holds overlay's value, type changes      *)
(* included; merge({a:{x:1,y:2}}, {a:{y:3,z:4}}) = {a:{x:1,y:3,z:4}}.            *)
C3_MergeRightBiasedRecursive ==
    (call.fn = "_dict_merge" /\ ret # Unset) =>
        /\ IsDict(ret)
        /\ IsMergeOf(ret.v, call.args[1].v, call.args[2].v)
        /\ _dict_merge(MergeExampleBase, MergeExampleOverlay) = MergeExampleResult

(* A merge that recursed into a key of both, kept a key of base alone and *)
(* replaced a mapping of base by a scalar of overlay.                     *)
C3_Witness ==
    /\ call.fn = "_dict_merge"
    /\ ret # Unset
    /\ call.args[1] = DictV(<<<<Ka, DictV(<<<<Ka, IntV(1)>>, <<Kb, IntV(1)>>>>)>>,
                              <<Kb, DictV(<<<<Ka, IntV(1)>>>>)>>>>)
    /\ call.args[2] = DictV(<<<<Kb, IntV(2)>>, <<Ka, DictV(<<<<Kb, IntV(2)>>>>)>>>>)
    /\ ret = DictV(<<<<Ka, DictV(<<<<Ka, IntV(1)>>, <<Kb, IntV(2)>>>>)>>, <<Kb, IntV(2)>>>>)

----------------------------------------------------------------------------
(* SpecSearch: _search_crossreference applied to every path expression of up *)
(* to MaxCrefLen characters, from every dict of a few trees                   *)

MaxCrefLen == 5

CrefChars == {"a", "b", ".", "/"}
Crefs == UNION {[1..n -> CrefChars] : n \in 0..MaxCrefLen}

(* {a: {a: {b: 1}, b: 2}, b: 3} *)
SearchTreePlain ==
    <<<<Ka, DictV(<<<<Ka, DictV(<<<<Kb, IntV(1)>>>>)>>, <<Kb, IntV(2)>>>>)>>, <<Kb, IntV(3)>>>>
(* {a: {b: 1, "": 4, "..": 5}, "": {b: 6}, "..": {a: 7}, ".": 8}: keys that read as path syntax *)
SearchTreeOddKeys ==
    <<<<Ka, DictV(<<<<Kb, IntV(1)>>, <<<<>>, IntV(4)>>, <<<<".", ".">>, IntV(5)>>>>)>>,
      <<<<>>, DictV(<<<<Kb, IntV(6)>>>>)>>,
      <<<<".", ".">>, DictV(<<<<Ka, IntV(7)>>>>)>>,
      <<<<".">>, IntV(8)>>>>
(* {a: <b>, b: {a: "@ref:x", b: <b>}}: a tree part resolved, <b> the dict under key b *)
SearchTreeShared ==
    <<<<Ka, RefV(<<Kb>>)>>,
      <<Kb, DictV(<<<<Ka, StrV(REF \o Kx)>>, <<Kb, RefV(<<Kb>>)>>>>)>>>>

(* The stack _resolve_crossreferences holds while it walks the dict at path. *)
StackTo(path) == [i \in 1..(Len(path) + 1) |-> SubSeq(path, 1, i - 1)]

SearchInputs ==
    ({SearchTreePlain} \X {<<>>, <<Ka>>, <<Ka, Ka>>})
    \cup ({SearchTreeOddKeys} \X {<<>>, <<Ka>>, <<<<>>>>, <<<<".", ".">>>>})
    \cup ({SearchTreeShared} \X {<<>>, <<Kb>>})

InitSearch ==
    /\ Imported
    /\ files = NoFiles
    /\ argv = <<StrV(Program)>>
    /\ call \in {Call("_search_crossreference", <<StrV(cref), DictV(in[1]), TupV(StackTo(in[2]))>>) :
                    cref \in Crefs, in \in SearchInputs}
    /\ ret = Unset

ApplySearch ==
    /\ call.fn = "_search_crossreference"
    /\ ret = Unset
    /\ ret' = _search_crossreference(call.args[2].v, call.args[1].v, call.args[3].v, 1)
    /\ UNCHANGED <<files, argv, call, Globals>>

SpecSearch == InitSearch /\ [][ApplySearch]_vars

(* s.split("/") *)
RECURSIVE Split(_)
Split(s) ==
    IF ~HasChar(s, "/") THEN <<s>>
    ELSE LET i == FirstIndex(s, "/") IN <<SubSeq(s, 1, i - 1)>> \o Split(Drop(s, i))

(* Path lookup as the specification words it, segment by segment: a head      *)
(* segment ".." goes one level up (RootEscapeError at the root), an empty head *)
(* segment restarts at the root, any other head segment goes one level down    *)
(* (UnresolvedReferenceError when absent, TypeMismatchError when no mapping),  *)
(* and the last segment is the key whose value is returned.                    *)
RECURSIVE PathLookup(_, _, _)
PathLookup(root, segments, stack) ==
    LET top == stack[Len(stack)]
        this == ObjAt(root, top)
        k == segments[1]
    IN  IF Len(segments) = 1
        THEN IF Has(this, k) THEN Deref(top, k, Get(this, k)) ELSE NoSuchKey
        ELSE IF k = <<>> THEN PathLookup(root, Tail(segments), SubSeq(stack, 1, 1))
        ELSE IF k = <<".", ".">>
        THEN IF Len(stack) = 1 THEN RootEscape
             ELSE PathLookup(root, Tail(segments), SubSeq(stack, 1, Len(stack) - 1))
        ELSE IF ~Has(this, k) THEN NoSuchKey
        ELSE LET v == Deref(top, k, Get(this, k)) IN
             IF ~IsDictObj(v) THEN NotADict
             ELSE PathLookup(root, Tail(segments), Append(stack, v.v))

(* C4: for a path expression that does not begin with "/", lookup fails with    *)
(* RootEscapeError exactly when a "../" prefix is met on a stack of one element, *)
(* with UnresolvedReferenceError exactly when a head segment or the final key   *)
(* is not a key of the mapping on top of the stack, with TypeMismatchError      *)
(* exactly when a head segment names a value that is no mapping, and in every   *)
(* other case returns the value of the final key.                               *)
C4_PathLookupFailures ==
    (call.fn = "_search_crossreference" /\ ret # Unset /\ ~startswith(call.args[1].v, SLASH)) =>
        ret = PathLookup(call.args[2].v, Split(call.args[1].v), call.args[3].v)

(* The same, for the path expressions in which no "/" follows a "/". *)
NoEmptyHead(cref) == \A i \in 1..(Len(cref) - 1) : ~(cref[i] = "/" /\ cref[i + 1] = "/")
C4_WithoutEmptySegments ==
    (call.fn = "_search_crossreference" /\ ret # Unset
        /\ ~startswith(call.args[1].v, SLASH) /\ NoEmptyHead(call.args[1].v)) =>
        ret = PathLookup(call.args[2].v, Split(call.args[1].v), call.args[3].v)

----------------------------------------------------------------------------
(* SpecRefs: _resolve_crossreferences applied to trees that hold markers *)

Marker(cref) == StrV(REF \o cref)
IsMarker(v) == IsStr(v) /\ startswith(v.v, REF)

FlatMarkers == {Marker(Ka), Marker(Kb), Marker(Kc), Marker(<<"/", "c">>),
                Marker(<<".", ".", "/", "a">>)}
OuterMarkers == {Marker(Ka), Marker(Kc), Marker(<<"a", "/", "b">>), Marker(<<"a", "/", "a">>),
                 Marker(<<"/", "a", "/", "b">>), Marker(<<".", ".", "/", "a">>)}
InnerMarkers == {Marker(Ka), Marker(Kb), Marker(<<".", ".", "/", "c">>),
                 Marker(<<".", ".", "/", "a">>), Marker(<<"/", "a", "/", "b">>)}
InnerDicts == {DictV(t) : t \in DictsOver({Ka, Kb}, {IntV(2)} \cup InnerMarkers)}

(* {a:{b:1}, c:"@ref:/a/b"} *)
RootRefExample ==
    <<<<Ka, DictV(<<<<Kb, IntV(1)>>>>)>>, <<Kc, Marker(<<"/", "a", "/", "b">>)>>>>
(* {a:{b:1, c:"@ref:../a/b"}} *)
RelativeRefExample ==
    <<<<Ka, DictV(<<<<Kb, IntV(1)>>, <<Kc, Marker(<<".", ".", "/", "a", "/", "b">>)>>>>)>>>>
(* {c:"@ref:d", d:"@ref:e", e:1} *)
ChainExample == <<<<Kc, Marker(Kd)>>, <<Kd, Marker(Ke)>>, <<Ke, IntV(1)>>>>
(* {e:1, d:"@ref:e", c:"@ref:d"} *)
ChainExampleReversed == <<<<Ke, IntV(1)>>, <<Kd, Marker(Ke)>>, <<Kc, Marker(Kd)>>>>
(* {a:{a:{c:"@ref:/b"}}, b:1}: a root reference two levels down *)
DeepRootRefExample ==
    <<<<Ka, DictV(<<<<Ka, DictV(<<<<Kc, Marker(<<"/", "b">>)>>>>)>>>>)>>, <<Kb, IntV(1)>>>>
(* {a:"@ref:c", b:"@ref:a/x", c:{x:"@ref:../d"}, d:1}: b's path goes through a *)
ThroughMarkerExample ==
    <<<<Ka, Marker(Kc)>>, <<Kb, Marker(<<"a", "/", "x">>)>>,
      <<Kc, DictV(<<<<Kx, Marker(<<".", ".", "/", "d">>)>>>>)>>, <<Kd, IntV(1)>>>>
(* {a:[{c:"@ref:b"}], b:1}: a mapping inside a sequence *)
InListExample ==
    <<<<Ka, ListV(<<DictV(<<<<Kc, Marker(Kb)>>>>)>>)>>, <<Kb, IntV(1)>>>>

RefTrees ==
    DictsOver({Ka, Kb, Kc}, {IntV(1)} \cup FlatMarkers)
    \cup DictsOver({Ka, Kc}, {IntV(1)} \cup OuterMarkers \cup InnerDicts)
    \cup {RootRefExample, RelativeRefExample, ChainExample, ChainExampleReversed,
          DeepRootRefExample, ThroughMarkerExample, InListExample}

InitRefs ==
    /\ Imported
    /\ files = NoFiles
    /\ argv = <<StrV(Program)>>
    /\ call \in {Call("_resolve_crossreferences", <<DictV(t)>>) : t \in RefTrees}
    /\ ret = Unset

ApplyRefs ==
    /\ call.fn = "_resolve_crossreferences"
    /\ ret = Unset
    /\ ret' = _resolve_crossreferences(call.args[1].v, <<<<>>>>, 1)
    /\ UNCHANGED <<files, argv, call, Globals>>

SpecRefs == InitRefs /\ [][ApplyRefs]_vars

(* The paths of the dicts nested in root through dict values, root's own included. *)
RECURSIVE DictPaths(_)
DictPaths(root) ==
    {<<>>} \cup UNION {{<<root[i][1]>> \o p : p \in DictPaths(root[i][2].v)} :
                        i \in {j \in 1..Len(root) : IsDict(root[j][2])}}

(* The places <<path, key>> of root that hold a marker. *)
MarkerPlaces(root) ==
    UNION {{<<p, k>> : k \in {k \in KeysOf(ObjAt(root, p)) : IsMarker(Get(ObjAt(root, p), k))}} :
           p \in DictPaths(root)}

CrefAt(root, place) == Drop(Get(ObjAt(root, place[1]), place[2]).v, Len(REF))

(* What the marker at place points to in root, by the specification's path lookup. *)
Target(root, place) == PathLookup(root, Split(CrefAt(root, place)), StackTo(place[1]))

(* C1: root reference.  A marker "@ref:/s1/.../sn", at whatever depth it sits, *)
(* is replaced by the value found by following s1..sn downward from the root,  *)
(* and resolution terminates; {a:{b:1}, c:"@ref:/a/b"} yields c == 1.          *)
C1_RootReference ==
    (/\ call.fn = "_resolve_crossreferences"
     /\ ret # Unset
     /\ \A place \in MarkerPlaces(call.args[1].v) :
           /\ startswith(CrefAt(call.args[1].v, place), SLASH)
           /\ ~IsExc(Target(call.args[1].v, place))
           /\ ~IsMarker(Target(call.args[1].v, place)))
    => /\ IsDict(ret)
       /\ \A place \in MarkerPlaces(call.args[1].v) :
             Get(ObjAt(ret.v, place[1]), place[2]) =
                PathLookup(call.args[1].v, Tail(Split(CrefAt(call.args[1].v, place))), <<<<>>>>)

(* C10 as stated: whenever resolve_refs returns, no string stored under a key of the *)
(* root or of a nested mapping of the returned tree begins with "@ref:".             *)
C10_NoMarkerSurvives ==
    (call.fn = "_resolve_crossreferences" /\ IsDict(ret)) => MarkerPlaces(ret.v) = {}

(* C10 as amended: whenever resolve_refs returns on a tree in which every marker's  *)
(* path leads to a value that is not itself a marker, no string stored under a key  *)
(* of the root or of a mapping nested in it through mapping values begins with      *)
(* "@ref:"; a marker whose path leads to a marker is replaced by that marker as it  *)
(* stands at that moment: {c:"@ref:d", d:"@ref:e", e:1} ends with c == "@ref:e" and *)
(* d == 1, {e:1, d:"@ref:e", c:"@ref:d"} with c == 1 and d == 1.                     *)
C10_NoMarkerSurvivesUnlessTargetIsMarker ==
    /\ (/\ call.fn = "_resolve_crossreferences"
        /\ IsDict(ret)
        /\ \A place \in MarkerPlaces(call.args[1].v) :
              /\ ~IsExc(Target(call.args[1].v, place))
              /\ ~IsMarker(Target(call.args[1].v, place)))
       => /\ MarkerPlaces(ret.v) = {}
          /\ \A place \in MarkerPlaces(call.args[1].v) :
                Get(ObjAt(ret.v, place[1]), place[2]) = Target(call.args[1].v, place)
    /\ (call.fn = "_resolve_crossreferences" /\ ret # Unset /\ call.args[1].v = ChainExample)
       => ret = DictV(<<<<Kc, Marker(Ke)>>, <<Kd, IntV(1)>>, <<Ke, IntV(1)>>>>)
    /\ (call.fn = "_resolve_crossreferences" /\ ret # Unset /\ call.args[1].v = ChainExampleReversed)
       => ret = DictV(<<<<Ke, IntV(1)>>, <<Kd, IntV(1)>>, <<Kc, IntV(1)>>>>)

(* Resolved: a marker in the root that descends, and a marker in a nested mapping. *)
C10_Witness ==
    /\ call.fn = "_resolve_crossreferences"
    /\ call.args[1].v = <<<<Ka, DictV(<<<<Ka, IntV(2)>>, <<Kb, Marker(Ka)>>>>)>>,
                          <<Kc, Marker(<<"a", "/", "a">>)>>>>
    /\ ret = DictV(<<<<Ka, DictV(<<<<Ka, IntV(2)>>, <<Kb, IntV(2)>>>>)>>, <<Kc, IntV(2)>>>>)

----------------------------------------------------------------------------
(* SpecInclude: _import_include_params applied to a set C over stores of the *)
(* sets A, B and D, each with its own keys and its own @include              *)

NA == <<"A">>
NB == <<"B">>
ND == <<"D">>
NN == <<"N">>   \* never a file

Names(l) == ListV([i \in 1..Len(l) |-> StrV(l[i])])

(* A set's own keys; n is the number that marks the set's values. *)
ShapeLeaf(n) == <<<<Ka, IntV(n)>>>>
ShapeNested(n) == <<<<Ka, DictV(<<<<Kx, IntV(n)>>>>)>>>>
ShapeWide(n) == <<<<Ka, DictV(<<<<Kx, IntV(n)>>, <<Ky, IntV(n)>>>>)>>, <<Kb, IntV(n)>>>>
ShapeOther(n) == <<<<Kb, IntV(n)>>, <<Ka, DictV(<<<<Ky, IntV(n)>>>>)>>>>
ShapeTagInside(n) == <<<<Ka, DictV(<<<<INCLUDE, Names(<<ND>>)>>, <<Kx, IntV(n)>>>>)>>>>

(* The documents of one set: each shape, with no @include or with one of includes. *)
Docs(shapes, includes) ==
    {DictV(sh) : sh \in shapes}
    \cup {DictV(<<<<INCLUDE, inc>>>> \o sh) : sh \in shapes, inc \in includes}

DocsA == Docs({ShapeLeaf(1), ShapeNested(1), ShapeWide(1), ShapeTagInside(1)},
              {Names(<<NB>>), Names(<<ND>>)})
DocsB == Docs({ShapeLeaf(2), ShapeNested(2), ShapeOther(2)},
              {Names(<<ND>>), Names(<<NA>>)})
DocsD == Docs({ShapeLeaf(4), ShapeNested(4), ShapeOther(4)}, {None})
DocsC == Docs({<<>>, ShapeLeaf(3), ShapeNested(3), ShapeTagInside(3)},
              {None, Names(<<>>), Names(<<NA>>), Names(<<NA, NB>>), Names(<<NB, NA>>),
               Names(<<ND>>), Names(<<NN>>)})

Store(docA, docB, docD) ==
    [f \in {NA \o DOT_JSON, NB \o DOT_JSON, ND \o DOT_JSON} |->
        IF f = NA \o DOT_JSON THEN docA ELSE IF f = NB \o DOT_JSON THEN docB ELSE docD]

InitInclude ==
    /\ Imported
    /\ files \in {Store(docA, docB, docD) : docA \in DocsA, docB \in DocsB, docD \in DocsD}
    /\ argv = <<StrV(Program)>>
    /\ call \in {Call("_import_include_params", <<docC>>) : docC \in DocsC}
    /\ ret = Unset

ApplyInclude ==
    /\ call.fn = "_import_include_params"
    /\ ret = Unset
    /\ ret' = _import_include_params(files, call.args[1], 1)
    /\ UNCHANGED <<files, argv, call, Globals>>

SpecInclude == InitInclude /\ [][ApplyInclude]_vars

(* The include list of a set: its names, none when @include is absent or null. *)
IncludeList(doc) ==
    IF Has(doc.v, INCLUDE) /\ Get(doc.v, INCLUDE).t = "list"
    THEN [i \in 1..Len(Get(doc.v, INCLUDE).v) |-> Get(doc.v, INCLUDE).v[i].v]
    ELSE <<>>

(* The sets that doc draws on, from the lowest priority to the highest: those of *)
(* its includes in list order, then doc itself.  ok is FALSE when a named set is *)
(* missing or the include graph has a cycle (more levels than there are files).  *)
RECURSIVE Priority(_, _, _)
RECURSIVE PriorityOfList(_, _, _, _)
PriorityOfList(fs, names, i, level) ==
    IF i > Len(names) THEN [ok |-> TRUE, sets |-> <<>>]
    ELSE IF names[i] \o DOT_JSON \notin DOMAIN fs THEN [ok |-> FALSE, sets |-> <<>>]
    ELSE LET first == Priority(fs, fs[names[i] \o DOT_JSON], level + 1)
             rest == PriorityOfList(fs, names, i + 1, level)
         IN  [ok |-> first.ok /\ rest.ok, sets |-> first.sets \o rest.sets]
Priority(fs, doc, level) ==
    IF level > Cardinality(DOMAIN fs) THEN [ok |-> FALSE, sets |-> <<>>]
    ELSE LET below == PriorityOfList(fs, IncludeList(doc), 1, level) IN
         [ok |-> below.ok, sets |-> Append(below.sets, doc)]

(* Whether the key path leads to a value in tree, and that value. *)
RECURSIVE PathIn(_, _)
PathIn(tree, path) ==
    /\ Has(tree, path[1])
    /\ \/ Len(path) = 1
       \/ IsDict(Get(tree, path[1])) /\ PathIn(Get(tree, path[1]).v, Tail(path))
RECURSIVE ValueAt(_, _)
ValueAt(tree, path) ==
    IF Len(path) = 1 THEN Get(tree, path[1]) ELSE ValueAt(Get(tree, path[1]).v, Tail(path))

(* The key paths of tree that end in a value that is no mapping. *)
RECURSIVE LeafPaths(_)
LeafPaths(tree) ==
    UNION {IF IsDict(tree[i][2])
           THEN {<<tree[i][1]>> \o p : p \in LeafPaths(tree[i][2].v)}
           ELSE {<<tree[i][1]>>} : i \in 1..Len(tree)}

(* The highest-priority set of sets that defines path. *)
Winner(sets, path) ==
    sets[CHOOSE i \in 1..Len(sets) :
            /\ PathIn(sets[i].v, path)
            /\ \A j \in (i + 1)..Len(sets) : ~PathIn(sets[j].v, path)]

(* C2: include precedence.  Over an acyclic include graph whose named sets all   *)
(* exist, every key path of resolve_includes(C) that ends in a non-mapping value *)
(* has the value of the highest-priority set that defines the path, C itself     *)
(* ranking above all it includes and a later include (with its own includes)     *)
(* above an earlier one; and every key of every set drawn on, however far down   *)
(* the include chain, is present in the result.                                  *)
C2_IncludePrecedence ==
    (/\ call.fn = "_import_include_params"
     /\ ret # Unset
     /\ Priority(files, call.args[1], 0).ok)
    => LET sets == Priority(files, call.args[1], 0).sets IN
       /\ IsDict(ret)
       /\ \A path \in LeafPaths(ret.v) :
             /\ \E i \in 1..Len(sets) : PathIn(sets[i].v, path)
             /\ ValueAt(ret.v, path) = ValueAt(Winner(sets, path).v, path)
       /\ \A i \in 1..Len(sets) : KeysOf(sets[i].v) \ {INCLUDE} \subseteq KeysOf(ret.v)

(* C includes [A, B], A includes D: D's b and a.y are seen through A, B's a.x *)
(* wins over A's, and C's own a.x over both.                                  *)
C2_Witness ==
    /\ call.fn = "_import_include_params"
    /\ call.args[1] = DictV(<<<<INCLUDE, Names(<<NA, NB>>)>>>> \o ShapeNested(3))
    /\ files = Store(DictV(<<<<INCLUDE, Names(<<ND>>)>>>> \o ShapeNested(1)),
                     DictV(ShapeNested(2)), DictV(ShapeOther(4)))
    /\ ret = DictV(<<<<Kb, IntV(4)>>,
                     <<Ka, DictV(<<<<Ky, IntV(4)>>, <<Kx, IntV(3)>>>>)>>>>)

(* The paths of the dicts of tree that hold the key @include. *)
TaggedDicts(tree) == {p \in DictPaths(tree) : Has(ObjAt(tree, p), INCLUDE)}

----------------------------------------------------------------------------
(* Spec: a process that calls the module's functions in any order, over a *)
(* store of parameter sets                                                *)

MaxAddr == 2

Nbase == <<"b", "a", "s", "e">>
Nderived == <<"d", "e", "r", "i", "v", "e", "d">>
Nrel == <<"r", "e", "l">>
Nexp == <<"e", "x", "p">>
Nnum == <<"n", "u", "m">>
Nchain == <<"c", "h", "a", "i", "n">>
Ninc == <<"i", "n", "c">>
Nup == <<"u", "p">>
Nnokey == <<"n", "o", "k", "e", "y">>
Nnotdict == <<"n", "o", "t", "d", "i", "c", "t">>
Nnin == <<"n", "i", "n">>
Nnope == <<"n", "o", "p", "e">>   \* never a file

Ktimeout == <<"t", "i", "m", "e", "o", "u", "t">>
Knested == <<"n", "e", "s", "t", "e", "d">>
Kref == <<"r", "e", "f">>

(* file name |-> document *)
SessionDocs ==
    << \* {timeout: 10, nested: {x: 1}}
       <<Nbase, DictV(<<<<Ktimeout, IntV(10)>>, <<Knested, DictV(<<<<Kx, IntV(1)>>>>)>>>>)>>,
       \* {"@include": ["base"], nested: {y: 2}, ref: "@ref:/nested/x"}
       <<Nderived, DictV(<<<<INCLUDE, Names(<<Nbase>>)>>,
                           <<Knested, DictV(<<<<Ky, IntV(2)>>>>)>>,
                           <<Kref, Marker(<<"/", "n", "e", "s", "t", "e", "d", "/", "x">>)>>>>)>>,
       \* {a: {b: 1, c: "@ref:../a/b"}}
       <<Nrel, DictV(RelativeRefExample)>>,
       \* {"@include": ["rel"], experiment_name: "e", run_name: "r1"}
       <<Nexp, DictV(<<<<INCLUDE, Names(<<Nrel>>)>>, <<EXPERIMENT_NAME, StrV(Ke)>>,
                       <<RUN_NAME, StrV(<<"r", "1">>)>>>>)>>,
       \* {experiment_name: "e", run_name: 5}
       <<Nnum, DictV(<<<<EXPERIMENT_NAME, StrV(Ke)>>, <<RUN_NAME, IntV(5)>>>>)>>,
       \* {c: "@ref:d", d: "@ref:e", e: 1}
       <<Nchain, DictV(ChainExample)>>,
       \* {"@include": ["nope"]}
       <<Ninc, DictV(<<<<INCLUDE, Names(<<Nnope>>)>>>>)>>,
       \* {c: "@ref:../x"}
       <<Nup, DictV(<<<<Kc, Marker(<<".", ".", "/", "x">>)>>>>)>>,
       \* {c: "@ref:zz"}
       <<Nnokey, DictV(<<<<Kc, Marker(<<"z", "z">>)>>>>)>>,
       \* {e: 1, c: "@ref:e/x"}
       <<Nnotdict, DictV(<<<<Ke, IntV(1)>>, <<Kc, Marker(<<"e", "/", "x">>)>>>>)>>,
       \* {nested: {"@include": ["base"]}}
       <<Nnin, DictV(<<<<Knested, DictV(<<<<INCLUDE, Names(<<Nbase>>)>>>>)>>>>)>> >>

SessionFiles ==
    [f \in {SessionDocs[i][1] \o DOT_JSON : i \in 1..Len(SessionDocs)} |->
        SessionDocs[CHOOSE i \in 1..Len(SessionDocs) : SessionDocs[i][1] \o DOT_JSON = f][2]]

SessionNames == {SessionDocs[i][1] : i \in 1..Len(SessionDocs)} \cup {Nnope}

(* What initialize_parameters is called with. *)
InitializeArgs ==
    {StrV(CMD_LINE_ARGS)}
    \cup {StrV(n) : n \in SessionNames}
    \cup {ListV(<<>>), ListV(<<IntV(1)>>)}
    \cup {Names(<<Nbase, Nexp>>), Names(<<Nexp, Nbase>>), Names(<<Nbase, Nnope>>)}

AddrKeys == {Ktimeout, Knested, Kx}
Addrs == UNION {[1..n -> {StrV(k) : k \in AddrKeys}] : n \in 0..MaxAddr}

LogStrings == {<<"h", "i">>}
Clock == {"29 04 2026 - 02:29:01"}

Init ==
    /\ Imported
    /\ files = SessionFiles
    /\ argv \in {<<StrV(Program)>>, <<StrV(Program), StrV(Nrel)>>}
    /\ call = Call("import", <<>>)
    /\ ret = None

Next ==
    \/ \E setup_name_or_names \in InitializeArgs : initialize_parameters(setup_name_or_names)
    \/ get_current_parameters_dict
    \/ \E addr \in Addrs : get_parameter(addr)
    \/ get_run_name
    \/ \E now \in Clock : get_stamp(now)
    \/ \E string \in LogStrings, now \in Clock : log(string, now)

Spec == Init /\ [][Next]_vars

----------------------------------------------------------------------------
(* Claims about the session *)

IsInitialize == call.fn = "initialize_parameters"
Exists(name) == name.v \o DOT_JSON \in DOMAIN files

(* C6: a top-level name that the store does not hold is not fatal: initialize  *)
(* warns, takes an empty tree for it, and completes, publishing the merge of   *)
(* the resolved trees of the other names; a name missing from the store that   *)
(* is named by an @include makes resolve_includes fail with                    *)
(* MissingIncludeError.                                                        *)
C6_MissingTopLevelSetIsNonFatal ==
    /\ (/\ IsInitialize
        /\ SetupNames(argv, call.args[1]).t = "list"
        /\ \A i \in 1..Len(SetupNames(argv, call.args[1]).v) :
              IsStr(SetupNames(argv, call.args[1]).v[i])
        /\ \E i \in 1..Len(SetupNames(argv, call.args[1]).v) :
              ~Exists(SetupNames(argv, call.args[1]).v[i])
        /\ IsDict(MergedParams(files, SelectSeq(SetupNames(argv, call.args[1]).v, Exists))))
       => /\ ret = None
          /\ CURRENT_PARAMS =
                MergedParams(files, SelectSeq(SetupNames(argv, call.args[1]).v, Exists))
    /\ (IsInitialize /\ call.args[1] = StrV(Ninc)) => ret = MissingInclude

FatalErrors == {MissingInclude, RootEscape, NoSuchKey, NotADict}

(* A call of initialize_parameters that fails with one of the four fatal errors *)
(* leaves the published run session and the run log storage as they were.       *)
FatalErrorsLeaveSessionAlone ==
    [][(call'.fn = "initialize_parameters" /\ ret' \in FatalErrors)
          => UNCHANGED <<P, CURRENT_PARAMS, CURRENT_RUN, past_runs>>]_vars

(* The three published fields are those of one call. *)
PublishedTogether ==
    CURRENT_PARAMS # Unset =>
        /\ P = dict_to_obj(CURRENT_PARAMS.v, <<>>, 2)
        /\ CURRENT_RUN = RunName(CURRENT_PARAMS.v)

(* C7 as stated: fatal errors abort the entire initialization with no partial  *)
(* success: a call that fails with MissingIncludeError, RootEscapeError,       *)
(* UnresolvedReferenceError or TypeMismatchError leaves the published run      *)
(* session and the run log storage as they were; hence the three published     *)
(* fields always come from the same, most recent successful initialize call.   *)
C7_FatalErrorsAbort ==
    /\ FatalErrorsLeaveSessionAlone
    /\ [](<<P, CURRENT_PARAMS, CURRENT_RUN>> = last_ok)

(* C7 as amended: ... hence the three published fields always come from the    *)
(* same initialize call, which is the most recent successful one unless a      *)
(* later call published a run name that is not a string and then failed        *)
(* writing the run record.                                                     *)
C7_FatalErrorsAbortBeforePublishing ==
    /\ FatalErrorsLeaveSessionAlone
    /\ [](PublishedTogether)
    /\ [](<<P, CURRENT_PARAMS, CURRENT_RUN>> # last_ok => ~IsStr(CURRENT_RUN))

(* A fatal error after a successful call whose run has a log line. *)
C7_Witness ==
    /\ IsInitialize
    /\ ret \in FatalErrors
    /\ CURRENT_PARAMS # Unset
    /\ IsStr(CURRENT_RUN)
    /\ Len(past_runs[CURRENT_RUN.v].log) > 0

(* The value at the key path addr of the mapping d, None when a segment is absent. *)
RECURSIVE Follow(_, _, _)
Follow(root, at, addr) ==
    IF Len(addr) = 0 THEN at
    ELSE IF at.t # "ref" \/ ~Has(ObjAt(root, at.v), addr[1].v) THEN None
    ELSE Follow(root, Deref(at.v, addr[1].v, Get(ObjAt(root, at.v), addr[1].v)), Tail(addr))

(* C8: after a successful initialize, get_parameter(k1,...,kn) returns the value *)
(* found by following k1..kn through the nested mappings of the published tree   *)
(* (the whole tree when n = 0), and the null-equivalent, without raising, when a *)
(* segment is absent.                                                            *)
C8_KeyPathRead ==
    (call.fn = "get_parameter" /\ last_ok # <<None, Unset, Unset>>) =>
        ret = Follow(CURRENT_PARAMS.v, RefV(<<>>), call.args)

(* Whether the persisted document holds the tree. *)
HoldsTree(doc, tree) ==
    \/ doc = tree
    \/ doc.t = "list" /\ \E i \in 1..Len(doc.v) : doc.v[i] = tree
    \/ doc.t = "dict" /\ \E i \in 1..Len(doc.v) : doc.v[i][2] = tree

(* C9: every successful initialize(names) persists to the run's log location a *)
(* snapshot equal to the final merged and resolved parameter tree, together    *)
(* with the names used.                                                        *)
C9_RunRecordHoldsTree ==
    (IsInitialize /\ ret = None) =>
        /\ IsStr(CURRENT_RUN)
        /\ CURRENT_RUN.v \in DOMAIN past_runs
        /\ HoldsTree(past_runs[CURRENT_RUN.v].params, CURRENT_PARAMS)

====
